---- MODULE Spec2Model ----
(***************************************************************************)
(* A model of rustedbrain (src/src/main.rs): the loader Program::new and    *)
(* the stepping engine ProgramRuntime::step.                               *)
(*                                                                         *)
(* Bytes are their ASCII codes.  Indices are zero-based as in the source;  *)
(* the TLA+ sequence that holds a Vec is read through At(v, i).            *)
(* usize is scaled to UsizeBits bits and the tape to PROGRAM_MEMORY cells  *)
(* (30000 in the source); the tape stays shorter than the usize range, as  *)
(* in the source.  Cells are u8 and keep their real modulus.               *)
(***************************************************************************)
EXTENDS Integers, Sequences, FiniteSets, TLC

\* ---------------------------------------------------------------- bounds
MaxSrcLen == 4          \* longest source file read by main
UsizeBits == 9          \* width of usize (64 in the build)
PROGRAM_MEMORY == 2     \* tape length (30000 in the source)
MaxInput == 2           \* bytes stdin can supply before it is exhausted
MaxOutput == 2          \* bytes printed before the run is cut off

UsizeMod == 2 ^ UsizeBits
U8Mod == 256

\* ------------------------------------------------------------- alphabet
GT == 62
LT == 60
PLUS == 43
MINUS == 45
DOT == 46
COMMA == 44
LBRACKET == 91
RBRACKET == 93
InstructionAlphabet == {GT, LT, PLUS, MINUS, DOT, COMMA, LBRACKET, RBRACKET}
OtherBytes == {97}      \* bytes outside the instruction alphabet ("a")

SourceBytes == {GT, LT, PLUS, MINUS, DOT, COMMA, LBRACKET, RBRACKET} \cup OtherBytes
InputBytes == {0, 65, 255}

\* What one read_exact on stdin can do: supply a byte, or fail.
ReadsOf(bytes) == {[ok |-> TRUE, byte |-> b] : b \in bytes}
                      \cup {[ok |-> FALSE, byte |-> 0]}

StdinReads == ReadsOf(InputBytes)

AnyStdinReads == ReadsOf(0 .. U8Mod - 1)

At(v, i) == v[i + 1]

EmptyMap == [k \in {} |-> 0]

insert(m, k, v) == [x \in (DOMAIN m) \cup {k} |-> IF x = k THEN v ELSE m[x]]

\* ------------------------------------------------------------ Program
\* As is_valid_bchar, with the b',' pattern forgotten.
is_valid_bchar_without_comma(bchar) ==
    bchar \in {GT, LT, PLUS, MINUS, DOT, LBRACKET, RBRACKET}

is_valid_bchar(bchar) ==
    bchar \in {GT, LT, PLUS, MINUS, DOT, COMMA, LBRACKET, RBRACKET}

\* As retain, with nothing stripped.
retain_everything(v) == v

\* program.code.retain(|&bchar| Program::is_valid_bchar(bchar))
retain(v) == SelectSeq(v, is_valid_bchar)

Err(e) == [tag |-> e, code |-> <<>>, loop_links |-> EmptyMap]

\* program.loop_links.insert(loop_beginning, i);
\* program.loop_links.insert(i, loop_beginning);
\* As record_link, with the second insert forgotten.
record_link_one_way(links, loop_beginning, i) ==
    insert(links, loop_beginning, i)

record_link(links, loop_beginning, i) ==
    insert(insert(links, loop_beginning, i), i, loop_beginning)

\* After the scan: an open loop is an error, otherwise Ok(program).
\* As after_scan, with the check for open loops forgotten.
after_scan_unchecked(pcode, unfinished_loop_links, links) ==
    [tag |-> "Ok", code |-> pcode, loop_links |-> links]

after_scan(pcode, unfinished_loop_links, links) ==
    IF Len(unfinished_loop_links) > 0
    THEN Err("LoopBeginningWithoutEnd")
    ELSE [tag |-> "Ok", code |-> pcode, loop_links |-> links]

\* The body of the for loop of Program::new at index i.  st holds the stack
\* of pending loop beginnings (top last), the links recorded so far, and the
\* error the loop has returned with, if any: after it, nothing more is done.
scan_bchar(st, pcode, i) ==
    IF st.err # "none" THEN st
    ELSE IF At(pcode, i) = LBRACKET THEN
        [st EXCEPT !.unfinished_loop_links = Append(@, i)]
    ELSE IF At(pcode, i) = RBRACKET THEN
        IF Len(st.unfinished_loop_links) > 0 THEN
            LET n == Len(st.unfinished_loop_links)
                loop_beginning == st.unfinished_loop_links[n]
            IN [st EXCEPT !.unfinished_loop_links = SubSeq(@, 1, n - 1),
                          !.links = record_link(@, loop_beginning, i)]
        ELSE [st EXCEPT !.err = "LoopEndWithoutBeginning"]
    ELSE st

\* The for loop over the indices lo .. hi - 1, in order.  The range is split
\* in halves to keep the evaluation shallow, and the state after the left
\* half is bound by a quantifier so that it is evaluated once.
RECURSIVE scan(_, _, _, _)
scan(st, pcode, lo, hi) ==
    IF hi <= lo THEN st
    ELSE IF hi = lo + 1 THEN scan_bchar(st, pcode, lo)
    ELSE LET mid == (lo + hi) \div 2
         IN CHOOSE after \in
                {IF left.err # "none" THEN left ELSE scan(left, pcode, mid, hi) :
                     left \in {scan(st, pcode, lo, mid)}} : TRUE

resolve_loop_links(pcode) ==
    LET st == scan([err |-> "none", unfinished_loop_links |-> <<>>, links |-> EmptyMap],
                   pcode, 0, Len(pcode))
    IN IF st.err # "none" THEN Err(st.err)
       ELSE after_scan(pcode, st.unfinished_loop_links, st.links)

Program_new(input_code) == resolve_loop_links(retain(input_code))

\* --------------------------------------------------------- ProgramRuntime
\* As read_mem, always reading the first cell.
read_mem_first_cell(m, loc) ==
    IF loc < PROGRAM_MEMORY
    THEN [ok |-> TRUE, val |-> m[0], err |-> "none"]
    ELSE [ok |-> FALSE, val |-> 0, err |-> "ReadAccessViolation"]

read_mem(m, loc) ==
    IF loc < PROGRAM_MEMORY
    THEN [ok |-> TRUE, val |-> m[loc], err |-> "none"]
    ELSE [ok |-> FALSE, val |-> 0, err |-> "ReadAccessViolation"]

read_mem_at_ptr(m, ptr) == read_mem(m, ptr)

\* As write_mem, keeping only the seven low bits of the byte.
write_mem_seven_bits(m, loc, val) ==
    IF loc < PROGRAM_MEMORY
    THEN [ok |-> TRUE, mem |-> [m EXCEPT ![loc] = val % 128], err |-> "none"]
    ELSE [ok |-> FALSE, mem |-> m, err |-> "WriteAccessViolation"]

write_mem(m, loc, val) ==
    IF loc < PROGRAM_MEMORY
    THEN [ok |-> TRUE, mem |-> [m EXCEPT ![loc] = val], err |-> "none"]
    ELSE [ok |-> FALSE, mem |-> m, err |-> "WriteAccessViolation"]

write_mem_at_ptr(m, ptr, val) == write_mem(m, ptr, val)

\* As inc_mem_at_ptr, with a saturating addition.
inc_mem_at_ptr_saturating(m, ptr) ==
    IF ptr < PROGRAM_MEMORY
    THEN [ok |-> TRUE,
          mem |-> [m EXCEPT ![ptr] = IF m[ptr] = U8Mod - 1 THEN m[ptr] ELSE m[ptr] + 1],
          err |-> "none"]
    ELSE [ok |-> FALSE, mem |-> m, err |-> "WriteAccessViolation"]

inc_mem_at_ptr(m, ptr) ==
    IF ptr < PROGRAM_MEMORY
    THEN [ok |-> TRUE, mem |-> [m EXCEPT ![ptr] = (m[ptr] + 1) % U8Mod], err |-> "none"]
    ELSE [ok |-> FALSE, mem |-> m, err |-> "WriteAccessViolation"]

\* As dec_mem_at_ptr, with the error of the read path.
dec_mem_at_ptr_read_error(m, ptr) ==
    IF ptr < PROGRAM_MEMORY
    THEN [ok |-> TRUE, mem |-> [m EXCEPT ![ptr] = (m[ptr] - 1) % U8Mod], err |-> "none"]
    ELSE [ok |-> FALSE, mem |-> m, err |-> "ReadAccessViolation"]

dec_mem_at_ptr(m, ptr) ==
    IF ptr < PROGRAM_MEMORY
    THEN [ok |-> TRUE, mem |-> [m EXCEPT ![ptr] = (m[ptr] - 1) % U8Mod], err |-> "none"]
    ELSE [ok |-> FALSE, mem |-> m, err |-> "WriteAccessViolation"]

ProgramRuntime_new ==
    [pc |-> 0, mem |-> [c \in 0 .. PROGRAM_MEMORY - 1 |-> 0], mem_ptr |-> 0]

\* What one call of step makes of the runtime state: the committed pc, mem
\* and mem_ptr, the bytes printed and taken from stdin, and what the call
\* returned (or the panic that ended it).
Outcome(p, m, ptr, pr, tk, res) ==
    [pc |-> p, mem |-> m, mem_ptr |-> ptr, print |-> pr, took |-> tk, result |-> res]

Returned(rt, kind, tk) == Outcome(rt.pc, rt.mem, rt.mem_ptr, <<>>, tk, <<kind>>)

\* As Ran, reporting the committed pc instead of the pc of the instruction.
Ran_reports_committed_pc(rt, p, m, ptr, pr, tk) ==
    Outcome(p, m, ptr, pr, tk, <<"RanInstructionAtPC", p>>)

Ran(rt, p, m, ptr, pr, tk) == Outcome(p, m, ptr, pr, tk, <<"RanInstructionAtPC", rt.pc>>)

\* if pc >= program.code.len() { return Ok(EndOfProgram); }
\* As end_of_program, with the tentative next pc committed before returning.
end_of_program_commits_pc(rt) ==
    Outcome((rt.pc + 1) % UsizeMod, rt.mem, rt.mem_ptr, <<>>, <<>>, <<"EndOfProgram">>)

end_of_program(rt) == Returned(rt, "EndOfProgram", <<>>)

\* b'>' => self.mem_ptr += Wrapping(1)
\* As move_right, with the pointer wrapping at the tape length.
move_right_within_tape(rt, next_pc) ==
    Ran(rt, next_pc, rt.mem, (rt.mem_ptr + 1) % PROGRAM_MEMORY, <<>>, <<>>)

move_right(rt, next_pc) ==
    Ran(rt, next_pc, rt.mem, (rt.mem_ptr + 1) % UsizeMod, <<>>, <<>>)

\* b'<' => self.mem_ptr -= Wrapping(1)
\* As move_left, with a saturating subtraction.
move_left_saturating(rt, next_pc) ==
    Ran(rt, next_pc, rt.mem, IF rt.mem_ptr = 0 THEN 0 ELSE rt.mem_ptr - 1, <<>>, <<>>)

move_left(rt, next_pc) ==
    Ran(rt, next_pc, rt.mem, (rt.mem_ptr - 1) % UsizeMod, <<>>, <<>>)

\* b'+' => { try!(self.inc_mem_at_ptr()); }
exec_inc(rt, next_pc) ==
    LET r == inc_mem_at_ptr(rt.mem, rt.mem_ptr)
    IN IF r.ok THEN Ran(rt, next_pc, r.mem, rt.mem_ptr, <<>>, <<>>)
       ELSE Returned(rt, r.err, <<>>)

\* b'-' => { try!(self.dec_mem_at_ptr()); }
\* As exec_dec, with pc committed although the write failed.
exec_dec_commits_on_error(rt, next_pc) ==
    LET r == dec_mem_at_ptr(rt.mem, rt.mem_ptr)
    IN IF r.ok THEN Ran(rt, next_pc, r.mem, rt.mem_ptr, <<>>, <<>>)
       ELSE Outcome(next_pc, rt.mem, rt.mem_ptr, <<>>, <<>>, <<r.err>>)

exec_dec(rt, next_pc) ==
    LET r == dec_mem_at_ptr(rt.mem, rt.mem_ptr)
    IN IF r.ok THEN Ran(rt, next_pc, r.mem, rt.mem_ptr, <<>>, <<>>)
       ELSE Returned(rt, r.err, <<>>)

\* b'.' => print!("{}", try!(self.read_mem_at_ptr()) as char)
\* As exec_output, with pc committed although the read failed.
exec_output_skips_on_error(rt, next_pc) ==
    LET r == read_mem_at_ptr(rt.mem, rt.mem_ptr)
    IN IF r.ok THEN Ran(rt, next_pc, rt.mem, rt.mem_ptr, <<r.val>>, <<>>)
       ELSE Outcome(next_pc, rt.mem, rt.mem_ptr, <<>>, <<>>, <<r.err>>)

exec_output(rt, next_pc) ==
    LET r == read_mem_at_ptr(rt.mem, rt.mem_ptr)
    IN IF r.ok THEN Ran(rt, next_pc, rt.mem, rt.mem_ptr, <<r.val>>, <<>>)
       ELSE Returned(rt, r.err, <<>>)

\* b',': read_exact on stdin (expect panics when it fails), and only then
\* the bounds-checked write.
\* As exec_input, storing 0 when stdin has no byte to give.
exec_input_zero_at_eof(rt, next_pc, rd) ==
    LET r == write_mem_at_ptr(rt.mem, rt.mem_ptr, IF rd.ok THEN rd.byte ELSE 0)
    IN IF r.ok THEN Ran(rt, next_pc, r.mem, rt.mem_ptr, <<>>, IF rd.ok THEN <<rd.byte>> ELSE <<>>)
       ELSE Returned(rt, r.err, IF rd.ok THEN <<rd.byte>> ELSE <<>>)

exec_input(rt, next_pc, rd) ==
    IF ~rd.ok THEN Returned(rt, "StdinPanic", <<>>)
    ELSE LET r == write_mem_at_ptr(rt.mem, rt.mem_ptr, rd.byte)
         IN IF r.ok THEN Ran(rt, next_pc, r.mem, rt.mem_ptr, <<>>, <<rd.byte>>)
            ELSE Returned(rt, r.err, <<rd.byte>>)

\* Wrapping(*program.loop_links.get(&pc).unwrap()) + Wrapping(1)
\* As jump_past_link, landing two past the link.
jump_two_past_link(prog_links, rt, next_pc) ==
    IF rt.pc \in DOMAIN prog_links
    THEN Ran(rt, (prog_links[rt.pc] + 2) % UsizeMod, rt.mem, rt.mem_ptr, <<>>, <<>>)
    ELSE Returned(rt, "UnwrapPanic", <<>>)

jump_past_link(prog_links, rt, next_pc) ==
    IF rt.pc \in DOMAIN prog_links
    THEN Ran(rt, (prog_links[rt.pc] + 1) % UsizeMod, rt.mem, rt.mem_ptr, <<>>, <<>>)
    ELSE Returned(rt, "UnwrapPanic", <<>>)

\* b'[': jump past matching ] if mem at ptr is 0
\* As exec_loop_begin, jumping onto the matching ] instead of past it.
exec_loop_begin_onto_link(prog_links, rt, next_pc) ==
    LET r == read_mem_at_ptr(rt.mem, rt.mem_ptr)
    IN IF ~r.ok THEN Returned(rt, r.err, <<>>)
       ELSE IF r.val = 0
            THEN Ran(rt, prog_links[rt.pc], rt.mem, rt.mem_ptr, <<>>, <<>>)
       ELSE Ran(rt, next_pc, rt.mem, rt.mem_ptr, <<>>, <<>>)

exec_loop_begin(prog_links, rt, next_pc) ==
    LET r == read_mem_at_ptr(rt.mem, rt.mem_ptr)
    IN IF ~r.ok THEN Returned(rt, r.err, <<>>)
       ELSE IF r.val = 0 THEN jump_past_link(prog_links, rt, next_pc)
       ELSE Ran(rt, next_pc, rt.mem, rt.mem_ptr, <<>>, <<>>)

\* b']': jump back past matching [ if mem at ptr is NOT 0
\* As exec_loop_end, with the test of the cell inverted.
exec_loop_end_inverted(prog_links, rt, next_pc) ==
    LET r == read_mem_at_ptr(rt.mem, rt.mem_ptr)
    IN IF ~r.ok THEN Returned(rt, r.err, <<>>)
       ELSE IF r.val = 0 THEN jump_past_link(prog_links, rt, next_pc)
       ELSE Ran(rt, next_pc, rt.mem, rt.mem_ptr, <<>>, <<>>)

\* As exec_loop_end, never jumping back.
exec_loop_end_falls_through(prog_links, rt, next_pc) ==
    LET r == read_mem_at_ptr(rt.mem, rt.mem_ptr)
    IN IF ~r.ok THEN Returned(rt, r.err, <<>>)
       ELSE Ran(rt, next_pc, rt.mem, rt.mem_ptr, <<>>, <<>>)

\* As exec_loop_end, jumping back past the [ without testing the cell.
exec_loop_end_jumps_always(prog_links, rt, next_pc) ==
    LET r == read_mem_at_ptr(rt.mem, rt.mem_ptr)
    IN IF ~r.ok THEN Returned(rt, r.err, <<>>)
       ELSE jump_past_link(prog_links, rt, next_pc)

exec_loop_end(prog_links, rt, next_pc) ==
    LET r == read_mem_at_ptr(rt.mem, rt.mem_ptr)
    IN IF ~r.ok THEN Returned(rt, r.err, <<>>)
       ELSE IF r.val # 0 THEN jump_past_link(prog_links, rt, next_pc)
       ELSE Ran(rt, next_pc, rt.mem, rt.mem_ptr, <<>>, <<>>)

\* bchar => debug_assert!(!Program::is_valid_bchar(bchar), ...): the
\* assertion passes on a byte outside the alphabet, and pc is committed.
exec_other(rt, next_pc) == Ran(rt, next_pc, rt.mem, rt.mem_ptr, <<>>, <<>>)

step(prog_code, prog_links, rt, rd) ==
    LET next_pc == (rt.pc + 1) % UsizeMod
        pc_ == rt.pc
    IN  IF pc_ >= Len(prog_code) THEN end_of_program(rt)
        ELSE LET bchar == At(prog_code, pc_) IN
          CASE bchar = GT -> move_right(rt, next_pc)
            [] bchar = LT -> move_left(rt, next_pc)
            [] bchar = PLUS -> exec_inc(rt, next_pc)
            [] bchar = MINUS -> exec_dec(rt, next_pc)
            [] bchar = DOT -> exec_output(rt, next_pc)
            [] bchar = COMMA -> exec_input(rt, next_pc, rd)
            [] bchar = LBRACKET -> exec_loop_begin(prog_links, rt, next_pc)
            [] bchar = RBRACKET -> exec_loop_end(prog_links, rt, next_pc)
            [] OTHER -> exec_other(rt, next_pc)

\* ------------------------------------------------------------------ state
VARIABLES
    file_data,      \* the source bytes main read from the file
    load,           \* "none" before Program::new, then "Ok" or its error
    code,           \* program.code
    loop_links,     \* program.loop_links
    pc,             \* program_runtime.pc
    mem,            \* program_runtime.mem
    mem_ptr,        \* program_runtime.mem_ptr
    out,            \* the bytes printed so far
    stdin_taken,    \* the bytes read from stdin so far
    result,         \* what the last call of step returned
    executed,       \* per instruction byte, the RanInstructionAtPC results a
                    \* counting caller has seen for it
    ref_pc,         \* the reference interpreter run beside the program: its pc,
    ref_mem,        \* its tape,
    ref_mem_ptr,    \* its pointer,
    ref_out,        \* the bytes it printed,
    ref_taken,      \* the bytes it read
    ref_result      \* and what its last step returned

ref_vars == <<ref_pc, ref_mem, ref_mem_ptr, ref_out, ref_taken, ref_result>>

vars == <<file_data, load, code, loop_links, pc, mem, mem_ptr, out, stdin_taken,
          result, executed, ref_vars>>

RECURSIVE SeqsUpTo(_, _)
SeqsUpTo(S, n) ==
    IF n = 0 THEN {<<>>}
    ELSE LET shorter == SeqsUpTo(S, n - 1)
         IN shorter \cup {Append(s, b) : s \in shorter, b \in S}

Panics == {"StdinPanic", "UnwrapPanic"}

\* n times '+', then [-]
Pluses(n) == [i \in 1 .. n |-> PLUS]

LoopPrograms == {Pluses(n) \o <<LBRACKET, MINUS, RBRACKET>> : n \in 1 .. U8Mod - 1}

\* The programs the specification runs by name: +[-] and its longer forms,
\* ,. and +++.
NamedPrograms ==
    LoopPrograms \cup {<<COMMA, DOT>>, <<PLUS, PLUS, PLUS, DOT>>}

StartWith(sources) ==
    /\ file_data \in sources
    /\ load = "none"
    /\ code = <<>>
    /\ loop_links = EmptyMap
    /\ pc = ProgramRuntime_new.pc
    /\ mem = ProgramRuntime_new.mem
    /\ mem_ptr = ProgramRuntime_new.mem_ptr
    /\ out = <<>>
    /\ stdin_taken = <<>>
    /\ result = <<"NotCalled">>
    /\ executed = [b \in InstructionAlphabet |-> 0]
    /\ ref_pc = ProgramRuntime_new.pc
    /\ ref_mem = ProgramRuntime_new.mem
    /\ ref_mem_ptr = ProgramRuntime_new.mem_ptr
    /\ ref_out = <<>>
    /\ ref_taken = <<>>
    /\ ref_result = <<"NotCalled">>

Init == StartWith(SeqsUpTo(SourceBytes, MaxSrcLen))

InitNamed == StartWith(NamedPrograms)

\* main: Program::new(&file_data), then ProgramRuntime::new().
Load ==
    /\ load = "none"
    /\ LET p == Program_new(file_data)
       IN /\ load' = p.tag
          /\ code' = p.code
          /\ loop_links' = p.loop_links
    /\ pc' = ProgramRuntime_new.pc
    /\ mem' = ProgramRuntime_new.mem
    /\ mem_ptr' = ProgramRuntime_new.mem_ptr
    /\ UNCHANGED <<file_data, out, stdin_taken, result, executed, ref_vars>>

\* One call program_runtime.step(&program), stdin doing one of reads.  A
\* caller may call again after any returned value; after a panic inside step
\* there is no next call.
StepCall(reads) ==
    /\ load = "Ok"
    /\ result[1] \notin Panics
    /\ \E rd \in IF pc < Len(code) /\ At(code, pc) = COMMA
                   THEN reads
                   ELSE {[ok |-> FALSE, byte |-> 0]} :     \* stdin is not read
         LET r == step(code, loop_links, [pc |-> pc, mem |-> mem, mem_ptr |-> mem_ptr], rd)
         IN /\ Len(out) + Len(r.print) <= MaxOutput
            /\ Len(stdin_taken) + Len(r.took) <= MaxInput
            /\ pc' = r.pc
            /\ mem' = r.mem
            /\ mem_ptr' = r.mem_ptr
            /\ out' = out \o r.print
            /\ stdin_taken' = stdin_taken \o r.took
            /\ result' = r.result
    /\ UNCHANGED <<file_data, load, code, loop_links>>

Step ==
    /\ StepCall(StdinReads)
    /\ UNCHANGED <<executed, ref_vars>>

Next == Load \/ Step

Spec == Init /\ [][Next]_vars

\* Spec with the run loop of main, which keeps calling step.
SpecFair == Spec /\ WF_vars(Step)

\* The run loop of main with a caller that counts the instructions run, and
\* a stdin that may hold any byte.
StepCounted ==
    /\ StepCall(AnyStdinReads)
    /\ executed' = IF result'[1] = "RanInstructionAtPC"
                   THEN [executed EXCEPT ![At(code, pc)] = @ + 1]
                   ELSE executed
    /\ UNCHANGED ref_vars

NextNamed == Load \/ StepCounted

\* main's loop calls step again after every RanInstructionAtPC.
SpecNamed == InitNamed /\ [][NextNamed]_vars /\ WF_vars(StepCounted)

\* ------------------------------------------------ reference interpreter
\* The reference semantics of the loop end: ']' jumps back onto the matching
\* '[' without testing the cell, and '[' tests it again.  Every other
\* instruction is the one of step.
ref_loop_end(prog_links, rt) ==
    Ran(rt, prog_links[rt.pc], rt.mem, rt.mem_ptr, <<>>, <<>>)

ref_step(prog_code, prog_links, rt, rd) ==
    IF rt.pc < Len(prog_code) /\ At(prog_code, rt.pc) = RBRACKET
    THEN ref_loop_end(prog_links, rt)
    ELSE step(prog_code, prog_links, rt, rd)

\* The reference steps that stand beside one step of the program: one, and
\* after a ']' the test of the '[' it jumped onto.
ref_steps(prog_code, prog_links, rt, rd) ==
    LET first == ref_step(prog_code, prog_links, rt, rd)
    IN IF rt.pc < Len(prog_code) /\ At(prog_code, rt.pc) = RBRACKET
       THEN ref_step(prog_code, prog_links,
                     [pc |-> first.pc, mem |-> first.mem, mem_ptr |-> first.mem_ptr], rd)
       ELSE first

\* One call of step, and beside it the reference interpreter on the same
\* program and the same input.
StepBoth ==
    /\ StepCall(StdinReads)
    /\ LET rd == IF Len(stdin_taken') > Len(stdin_taken)
                 THEN [ok |-> TRUE, byte |-> stdin_taken'[Len(stdin_taken')]]
                 ELSE [ok |-> FALSE, byte |-> 0]
           r == ref_steps(code, loop_links,
                          [pc |-> ref_pc, mem |-> ref_mem, mem_ptr |-> ref_mem_ptr], rd)
       IN /\ ref_pc' = r.pc
          /\ ref_mem' = r.mem
          /\ ref_mem_ptr' = r.mem_ptr
          /\ ref_out' = ref_out \o r.print
          /\ ref_taken' = ref_taken \o r.took
          /\ ref_result' = r.result
    /\ UNCHANGED executed

NextRef == Load \/ StepBoth

SpecRef == Init /\ [][NextRef]_vars

\* ================================================================ claims
\* The positions of a source that hold an instruction, and the k-th of them.
InstructionPositions(src) == {i \in 1 .. Len(src) : src[i] \in InstructionAlphabet}

KthInstructionPosition(src, k) ==
    CHOOSE i \in InstructionPositions(src) :
        Cardinality({j \in InstructionPositions(src) : j < i}) = k - 1

\* '[' minus ']' among the first n bytes of a source (the other bytes, kept
\* by the filter or not, do not count).
RECURSIVE Depth(_, _)
Depth(src, n) ==
    IF n = 0 THEN 0
    ELSE Depth(src, n - 1) + (IF src[n] = LBRACKET THEN 1
                              ELSE IF src[n] = RBRACKET THEN -1 ELSE 0)

EndWithoutBeginning(src) == \E n \in 1 .. Len(src) : Depth(src, n) < 0

BeginningWithoutEnd(src) == Depth(src, Len(src)) > 0

Balanced(src) == ~EndWithoutBeginning(src) /\ ~BeginningWithoutEnd(src)

\* C1: when Program::new succeeds, code is exactly the bytes of the source
\* that belong to the eight-symbol alphabet, in their original order; and a
\* source without '[' and ']' always loads.
C1_CodeIsFilteredSource ==
    /\ load = "Ok" =>
          /\ Len(code) = Cardinality(InstructionPositions(file_data))
          /\ \A k \in 1 .. Len(code) :
                code[k] = file_data[KthInstructionPosition(file_data, k)]
    /\ (load # "none" /\ \A i \in 1 .. Len(file_data) :
                            file_data[i] \notin {LBRACKET, RBRACKET})
          => load = "Ok"

C1_Witness ==
    /\ load = "Ok"
    /\ Len(code) >= 2
    /\ Len(code) < Len(file_data)
    /\ \E i \in 1 .. Len(code) : code[i] = COMMA
    /\ \A i \in 1 .. Len(file_data) : file_data[i] \notin {LBRACKET, RBRACKET}

\* C2: Program::new fails with LoopEndWithoutBeginning iff some prefix holds
\* more ']' than '['; otherwise with LoopBeginningWithoutEnd iff the whole
\* source holds more '[' than ']'; otherwise it succeeds.  A failure leaves
\* no program and nothing is run.
C2_LoadOutcome ==
    load # "none" =>
        /\ load = (IF EndWithoutBeginning(file_data) THEN "LoopEndWithoutBeginning"
                   ELSE IF BeginningWithoutEnd(file_data) THEN "LoopBeginningWithoutEnd"
                   ELSE "Ok")
        /\ load # "Ok" => /\ code = <<>>
                          /\ loop_links = EmptyMap
                          /\ result = <<"NotCalled">>

C2_Witness ==
    /\ load = "LoopEndWithoutBeginning"
    /\ \E i \in 1 .. Len(file_data) - 1 :
          /\ file_data[i] = RBRACKET
          /\ file_data[i + 1] = LBRACKET
          /\ BeginningWithoutEnd(file_data)

BracketIndices == {i \in 0 .. Len(code) - 1 : At(code, i) \in {LBRACKET, RBRACKET}}

\* C3: a balanced source loads, and then loop_links is symmetric, its keys
\* are exactly the indices of '[' and ']', and every '[' maps to a later ']'.
C3_LoopLinksSymmetric ==
    /\ (load # "none" /\ Balanced(file_data)) => load = "Ok"
    /\ load = "Ok" =>
          /\ DOMAIN loop_links = BracketIndices
          /\ \A i \in DOMAIN loop_links :
                /\ loop_links[i] \in DOMAIN loop_links
                /\ loop_links[loop_links[i]] = i
          /\ \A i \in BracketIndices :
                At(code, i) = LBRACKET =>
                    /\ loop_links[i] > i
                    /\ At(code, loop_links[i]) = RBRACKET

C3_Witness ==
    /\ load = "Ok"
    /\ Len(code) = 4
    /\ At(code, 0) = LBRACKET
    /\ At(code, 1) = LBRACKET
    /\ loop_links[0] = 3
    /\ loop_links[1] = 2

\* ------------------------------------------------------- claims on step
\* step is about to dispatch on the instruction at pc.
Fetching == load = "Ok" /\ result[1] \notin Panics /\ pc < Len(code)

Instr == At(code, pc)

ReadingInstrs == {DOT, LBRACKET, RBRACKET}
WritingInstrs == {PLUS, MINUS, COMMA}
MemoryInstrs == ReadingInstrs \cup WritingInstrs

Violations == {"ReadAccessViolation", "WriteAccessViolation"}

ViolationOf(bchar) ==
    IF bchar \in ReadingInstrs THEN "ReadAccessViolation" ELSE "WriteAccessViolation"

\* A cell changes or a byte is printed only with the pointer inside the tape.
AccessOnlyInBounds ==
    (load = "Ok" /\ (mem' # mem \/ out' # out)) => mem_ptr < PROGRAM_MEMORY

\* C4 as stated: with mem_ptr >= PROGRAM_MEMORY a memory instruction changes
\* no cell and step returns ReadAccessViolation for . [ ] and
\* WriteAccessViolation for + - and ,
C4_Original ==
    [][ /\ AccessOnlyInBounds
        /\ (Fetching /\ Instr \in MemoryInstrs /\ mem_ptr >= PROGRAM_MEMORY) =>
              /\ mem' = mem
              /\ result' = <<ViolationOf(Instr)>> ]_vars

\* C4: a cell changes or is printed only when mem_ptr < PROGRAM_MEMORY; with
\* mem_ptr >= PROGRAM_MEMORY no cell changes and step returns
\* ReadAccessViolation for . [ ] and WriteAccessViolation for + - and for a
\* , whose byte stdin supplied (the byte is taken before the bounds check);
\* a , whose read of stdin fails panics instead of returning.
C4_OutOfBoundsAccess ==
    [][ /\ AccessOnlyInBounds
        /\ (Fetching /\ Instr \in MemoryInstrs /\ mem_ptr >= PROGRAM_MEMORY) =>
              /\ mem' = mem
              /\ IF Instr = COMMA /\ stdin_taken' = stdin_taken
                 THEN result' = <<"StdinPanic">>
                 ELSE result' = <<ViolationOf(Instr)>> ]_vars

C4_Witness ==
    /\ result = <<"WriteAccessViolation">>
    /\ Fetching
    /\ Instr = MINUS
    /\ mem_ptr >= PROGRAM_MEMORY
    /\ \E c \in DOMAIN mem : mem[c] # 0

\* C5: a step call made with pc >= code.len() returns EndOfProgram, leaves
\* pc, mem_ptr and every cell unchanged, prints nothing and reads no input;
\* the first step on an empty program returns EndOfProgram with a zero tape.
C5_EndOfProgramFrame ==
    /\ [][ (load = "Ok" /\ result[1] \notin Panics /\ pc >= Len(code)) =>
              /\ result' = <<"EndOfProgram">>
              /\ UNCHANGED <<pc, mem_ptr, mem, out, stdin_taken>> ]_vars
    /\ [](  (load = "Ok" /\ code = <<>> /\ result # <<"NotCalled">>) =>
              /\ result = <<"EndOfProgram">>
              /\ pc = 0
              /\ \A c \in DOMAIN mem : mem[c] = 0 )

C5_Witness ==
    /\ result = <<"EndOfProgram">>
    /\ pc = Len(code)
    /\ Len(code) > 0
    /\ out # <<>>
    /\ \E c \in DOMAIN mem : mem[c] # 0

TerminalResults == {"EndOfProgram"} \cup Violations

\* C6 as stated: after EndOfProgram or an access violation every later step
\* call returns the same outcome and leaves pc, mem_ptr and the tape alone.
C6_Original ==
    [][ (load = "Ok" /\ result[1] \in TerminalResults) =>
            /\ result' = result
            /\ UNCHANGED <<pc, mem_ptr, mem>> ]_vars

\* C6: after EndOfProgram or an access violation a later step call never
\* returns RanInstructionAtPC and never changes pc, mem_ptr or the tape; it
\* returns the same outcome again, except that a repeated , reads stdin once
\* more and panics, instead of returning, when that read fails.
C6_TerminalOutcomes ==
    [][ (load = "Ok" /\ result[1] \in TerminalResults) =>
            /\ UNCHANGED <<pc, mem_ptr, mem>>
            /\ \/ result' = result
               \/ /\ result = <<"WriteAccessViolation">>
                  /\ Instr = COMMA
                  /\ stdin_taken' = stdin_taken
                  /\ result' = <<"StdinPanic">> ]_vars

C6_Witness ==
    /\ code = <<LT, COMMA>>
    /\ result = <<"WriteAccessViolation">>
    /\ Len(stdin_taken) = 2

\* C7: '[' with the pointer in bounds commits pc = loop_links[pc] + 1 when
\* the cell is zero and pc + 1 otherwise, and changes neither mem_ptr nor a cell.
C7_LoopBegin ==
    [][ (Fetching /\ Instr = LBRACKET /\ mem_ptr < PROGRAM_MEMORY) =>
            /\ pc' = IF mem[mem_ptr] = 0 THEN loop_links[pc] + 1 ELSE pc + 1
            /\ UNCHANGED <<mem_ptr, mem>> ]_vars

C7_Witness ==
    /\ result[1] = "RanInstructionAtPC"
    /\ At(code, result[2]) = LBRACKET
    /\ mem_ptr < PROGRAM_MEMORY
    /\ mem[mem_ptr] = 0
    /\ pc = loop_links[result[2]] + 1
    /\ pc > result[2] + 2

\* C8: ']' with the pointer in bounds commits pc = loop_links[pc] + 1 when
\* the cell is non-zero and pc + 1 otherwise, and changes neither mem_ptr
\* nor a cell.
C8_LoopEnd ==
    [][ (Fetching /\ Instr = RBRACKET /\ mem_ptr < PROGRAM_MEMORY) =>
            /\ pc' = IF mem[mem_ptr] # 0 THEN loop_links[pc] + 1 ELSE pc + 1
            /\ UNCHANGED <<mem_ptr, mem>> ]_vars

C8_Witness ==
    /\ result[1] = "RanInstructionAtPC"
    /\ At(code, result[2]) = RBRACKET
    /\ mem_ptr < PROGRAM_MEMORY
    /\ mem[mem_ptr] # 0
    /\ pc = loop_links[result[2]] + 1
    /\ pc < result[2]

\* C9: '>' and '<' never fail: step returns RanInstructionAtPC, mem_ptr moves
\* by one modulo the range of usize (not the tape length), whatever its
\* value, and no cell changes.
C9_PointerMoves ==
    [][ (Fetching /\ Instr \in {GT, LT}) =>
            /\ result' = <<"RanInstructionAtPC", pc>>
            /\ mem_ptr' = IF Instr = GT
                          THEN (IF mem_ptr = UsizeMod - 1 THEN 0 ELSE mem_ptr + 1)
                          ELSE (IF mem_ptr = 0 THEN UsizeMod - 1 ELSE mem_ptr - 1)
            /\ mem' = mem ]_vars

C9_Witness ==
    /\ result[1] = "RanInstructionAtPC"
    /\ At(code, result[2]) = LT
    /\ mem_ptr = UsizeMod - 1
    /\ mem_ptr >= PROGRAM_MEMORY
    /\ \E c \in DOMAIN mem : mem[c] # 0

\* The last call of step moved the pointer off the tape: a '>' from the last
\* cell, or a '<' from cell 0.
JustMovedOut ==
    /\ load = "Ok"
    /\ result[1] = "RanInstructionAtPC"
    /\ \/ At(code, result[2]) = GT /\ mem_ptr = PROGRAM_MEMORY
       \/ At(code, result[2]) = LT /\ mem_ptr = UsizeMod - 1

MovesOffTheTape ==
    /\ (Fetching /\ Instr = GT /\ mem_ptr = PROGRAM_MEMORY - 1) =>
            mem_ptr' = PROGRAM_MEMORY
    /\ (Fetching /\ Instr = LT /\ mem_ptr = 0) =>
            mem_ptr' = UsizeMod - 1 /\ mem_ptr' >= PROGRAM_MEMORY

\* C10 as stated: one '>' from the last cell, or one '<' from cell 0 (which
\* wraps to the largest usize), followed by any of + - . , [ ] yields an
\* access violation and touches no cell.
C10_Original ==
    [][ /\ MovesOffTheTape
        /\ (JustMovedOut /\ Fetching /\ Instr \in MemoryInstrs) =>
              /\ result'[1] \in Violations
              /\ mem' = mem ]_vars

\* C10: one '>' from the last cell, or one '<' from cell 0 (which wraps to
\* the largest usize), followed by any of + - . [ ], or by a , whose byte
\* stdin supplies, yields the access violation of its direction and touches
\* no cell; a , whose read of stdin fails panics before the bounds check.
C10_TapeLengthBounds ==
    [][ /\ MovesOffTheTape
        /\ (JustMovedOut /\ Fetching /\ Instr \in MemoryInstrs) =>
              /\ mem' = mem
              /\ \/ result' = <<ViolationOf(Instr)>>
                 \/ /\ Instr = COMMA
                    /\ stdin_taken' = stdin_taken
                    /\ result' = <<"StdinPanic">> ]_vars

C10_Witness ==
    /\ result[1] \in Violations
    /\ mem_ptr = PROGRAM_MEMORY
    /\ \A i \in 1 .. Len(code) : code[i] \notin {LBRACKET, RBRACKET, LT}
    /\ pc >= PROGRAM_MEMORY
    /\ At(code, pc - 1) = GT
    /\ Instr \in MemoryInstrs

\* C11: '+' and '-' with the pointer in bounds set the cell at mem_ptr to
\* old + 1 and old - 1 modulo 256 (255 becomes 0, 0 becomes 255) and change
\* no other cell and not mem_ptr.
C11_CellArithmeticWraps ==
    [][ (Fetching /\ Instr \in {PLUS, MINUS} /\ mem_ptr < PROGRAM_MEMORY) =>
            /\ mem'[mem_ptr] =
                  IF Instr = PLUS
                  THEN (IF mem[mem_ptr] = 255 THEN 0 ELSE mem[mem_ptr] + 1)
                  ELSE (IF mem[mem_ptr] = 0 THEN 255 ELSE mem[mem_ptr] - 1)
            /\ \A c \in DOMAIN mem : c # mem_ptr => mem'[c] = mem[c]
            /\ DOMAIN mem' = DOMAIN mem
            /\ mem_ptr' = mem_ptr ]_vars

C11_Witness ==
    /\ result[1] = "RanInstructionAtPC"
    /\ result[2] >= 1
    /\ At(code, result[2]) = PLUS
    /\ At(code, result[2] - 1) = MINUS
    /\ pc = result[2] + 1
    /\ stdin_taken = <<>>
    /\ \A i \in 1 .. Len(code) : code[i] \in {PLUS, MINUS}
    /\ mem_ptr = 0
    /\ mem[0] = 0

\* src is n times '+' followed by [-], for some n in 1 .. 255.
IsLoopProgram(src) ==
    /\ Len(src) - 3 \in 1 .. U8Mod - 1
    /\ \A i \in 1 .. Len(src) - 3 : src[i] = PLUS
    /\ src[Len(src) - 2] = LBRACKET
    /\ src[Len(src) - 1] = MINUS
    /\ src[Len(src)] = RBRACKET

\* C12: n times '+' followed by [-], for n in 1 .. 255 (n = 1 is +[-]), run
\* from the initial runtime state reaches EndOfProgram, and then the body
\* '-' has run exactly n times and cell 0 holds 0.
C12_LoopTerminates ==
    /\ []((load = "Ok" /\ IsLoopProgram(file_data)) => <>(result = <<"EndOfProgram">>))
    /\ []((IsLoopProgram(file_data) /\ result = <<"EndOfProgram">>) =>
            /\ executed[MINUS] = Len(file_data) - 3
            /\ executed[PLUS] = Len(file_data) - 3
            /\ mem[0] = 0
            /\ mem_ptr = 0)

C12_Witness ==
    /\ IsLoopProgram(file_data)
    /\ Len(file_data) = 255 + 3
    /\ result = <<"EndOfProgram">>
    /\ executed[MINUS] = 255
    /\ executed[RBRACKET] = 255
    /\ mem[0] = 0

\* What a step that ran the instruction at pc may have changed besides pc:
\* the effect of that one instruction and nothing else.
EffectOfInstr ==
    CASE Instr \in {GT, LT} ->
            /\ mem_ptr' # mem_ptr
            /\ UNCHANGED <<mem, out, stdin_taken>>
      [] Instr \in {PLUS, MINUS} ->
            /\ mem'[mem_ptr] # mem[mem_ptr]
            /\ \A c \in DOMAIN mem : c # mem_ptr => mem'[c] = mem[c]
            /\ UNCHANGED <<mem_ptr, out, stdin_taken>>
      [] Instr = DOT ->
            /\ Len(out') = Len(out) + 1
            /\ SubSeq(out', 1, Len(out)) = out
            /\ UNCHANGED <<mem, mem_ptr, stdin_taken>>
      [] Instr = COMMA ->
            /\ Len(stdin_taken') = Len(stdin_taken) + 1
            /\ SubSeq(stdin_taken', 1, Len(stdin_taken)) = stdin_taken
            /\ \A c \in DOMAIN mem : c # mem_ptr => mem'[c] = mem[c]
            /\ UNCHANGED <<mem_ptr, out>>
      [] Instr \in {LBRACKET, RBRACKET} ->
            UNCHANGED <<mem, mem_ptr, out, stdin_taken>>

\* C13: a step that returns RanInstructionAtPC(i) was called with pc = i, an
\* index into code, ran exactly the instruction at i, and committed the new
\* pc, which is i + 1 for the six instructions that are not brackets.
C13_RanInstructionAtPC ==
    [][ (load = "Ok" /\ result'[1] = "RanInstructionAtPC") =>
            /\ pc < Len(code)
            /\ result' = <<"RanInstructionAtPC", pc>>
            /\ EffectOfInstr
            /\ Instr \notin {LBRACKET, RBRACKET} => pc' = pc + 1
            /\ Instr \in {LBRACKET, RBRACKET} => pc' \in {pc + 1, loop_links[pc] + 1} ]_vars

C13_Witness ==
    /\ result[1] = "RanInstructionAtPC"
    /\ result[2] >= 1
    /\ pc = result[2] + 1
    /\ At(code, result[2]) = COMMA
    /\ At(code, result[2] - 1) = GT
    /\ mem_ptr = 1
    /\ stdin_taken = <<65>>
    /\ mem[1] = 65

C16_InputFailureIsFatal ==
    /\ [][ (Fetching /\ Instr = COMMA /\ stdin_taken' = stdin_taken) =>
              /\ result' = <<"StdinPanic">>
              /\ UNCHANGED <<pc, mem, mem_ptr, out>> ]_vars
    /\ [][ result = <<"StdinPanic">> => UNCHANGED vars ]_vars
    /\ [](result = <<"StdinPanic">> => (pc < Len(code) /\ At(code, pc) = COMMA))

C16_Witness ==
    /\ result = <<"StdinPanic">>
    /\ pc >= 1
    /\ At(code, pc) = COMMA
    /\ stdin_taken # <<>>
    /\ mem[mem_ptr] = 65

\* C17: step never fails to find loop_links[pc] when it dispatches on '[' or
\* ']', and never reaches the branch for a byte outside the alphabet.
C17_LoaderKeepsEngineSafe ==
    /\ result # <<"UnwrapPanic">>
    /\ load = "Ok" =>
          /\ \A i \in 0 .. Len(code) - 1 : At(code, i) \in InstructionAlphabet
          /\ \A i \in 0 .. Len(code) - 1 :
                At(code, i) \in {LBRACKET, RBRACKET} =>
                    /\ i \in DOMAIN loop_links
                    /\ loop_links[i] \in 0 .. Len(code) - 1

C17_Witness ==
    /\ Len(code) < Len(file_data)
    /\ result[1] = "RanInstructionAtPC"
    /\ At(code, result[2]) = RBRACKET
    /\ mem[mem_ptr] # 0
    /\ pc = loop_links[result[2]] + 1

\* C18: a step that returns ReadAccessViolation or WriteAccessViolation
\* leaves pc, mem_ptr and every cell as they were before the call.
C18_ViolationLeavesState ==
    [][ (load = "Ok" /\ result'[1] \in Violations) =>
            UNCHANGED <<pc, mem_ptr, mem>> ]_vars

C18_Witness ==
    /\ result = <<"WriteAccessViolation">>
    /\ Fetching
    /\ Instr = PLUS
    /\ pc >= 2
    /\ mem_ptr >= PROGRAM_MEMORY
    /\ mem[0] # 0

\* C19: pc stays within 0 .. code.len(); so pc + 1 never wraps around, and a
\* bracket jump lands within 0 .. code.len().
C19_PcInRange ==
    load = "Ok" =>
        /\ pc \in 0 .. Len(code)
        /\ pc + 1 < UsizeMod
        /\ \A i \in DOMAIN loop_links : loop_links[i] + 1 \in 1 .. Len(code)

C19_Witness ==
    /\ result[1] = "RanInstructionAtPC"
    /\ At(code, result[2]) = LBRACKET
    /\ pc = loop_links[result[2]] + 1
    /\ pc = Len(code)
    /\ Len(code) = MaxSrcLen

\* C20: run side by side on the same program and input, step and the
\* reference interpreter (']' jumps back onto the matching '[', which tests
\* the cell again) agree after every step of the program on the output, the
\* tape, mem_ptr, the input read and the outcome (running, EndOfProgram,
\* read or write access violation); while neither has failed they are at the
\* same pc, so one runs forever exactly when the other does.
C20_ReferenceEquivalence ==
    load = "Ok" =>
        /\ out = ref_out
        /\ mem = ref_mem
        /\ mem_ptr = ref_mem_ptr
        /\ stdin_taken = ref_taken
        /\ result[1] = ref_result[1]
        /\ result[1] \notin (Violations \cup Panics) => pc = ref_pc

C20_Witness ==
    /\ result[1] = "RanInstructionAtPC"
    /\ At(code, result[2]) = RBRACKET
    /\ mem[mem_ptr] # 0
    /\ pc = loop_links[result[2]] + 1
    /\ ref_result = <<"RanInstructionAtPC", loop_links[result[2]]>>
    /\ ref_pc = pc
    /\ stdin_taken # <<>>

====
